---- MODULE Spec2Model ----
(***************************************************************************)
(* Playback scheduler of "Say the Word on Beat": startBeat, the 3-2-1      *)
(* countdown, beginPlayback with its playSequence / updateBpmFromAudio     *)
(* closures, stopBeat, the [currentBpm] effect and the audio settings      *)
(* callbacks, together with the browser objects they act on (interval and  *)
(* timeout timers, the two <audio> elements).                              *)
(*                                                                         *)
(* Every timer callback and event handler runs to completion, so each is   *)
(* one action.  Timers fire in any order: no clock is modelled.            *)
(* Numbers that the code keeps as floating point (BPM, playback rate,      *)
(* audio time) are exact rationals <<numerator, denominator>>.             *)
(* Times are in seconds, the countdown duration in milliseconds.           *)
(***************************************************************************)
EXTENDS Integers, FiniteSets, Sequences, TLC

VARIABLES
  \* persisted settings (useLocalStorage)
  customAudio,                 \* 0 = null, otherwise the id of the uploaded audio
  currentBpmAnalysis,          \* 0 = null, otherwise the id of the audio it was computed from
  currentBpm,
  currentBaseBpm,
  currentAudioStartTime,
  currentRounds,
  currentIncreaseSpeed,
  currentSpeedIncreasePercent,
  currentCountdownDuration,    \* milliseconds
  \* React state (useState)
  isPlaying,
  activeIndex,                 \* null or a grid index
  revealedIndices,
  currentRound,
  isFullscreen,
  countdown,                   \* null, 3, 2 or 1
  isFinished,
  toast,                       \* the message of the last toast
  \* refs
  intervalRef,                 \* null or the id of a main timer
  bpmCheckIntervalRef,         \* null or the id of a poll timer
  \* browser timers that are live
  mainTimers,                  \* set of [id, sess, interval]
  pollTimers,                  \* set of [id, sess]
  countdownIntervals,          \* sessions whose countdown setInterval is live
  countdownTimeouts,           \* sessions whose setTimeout(beginPlayback) is pending
  \* one closure per startBeat call that passed validation
  sessions,                    \* live session id -> closure record
  starts,                      \* number of closures created so far
  \* <audio> elements
  customEl,
  defaultEl,
  \* history
  event                        \* what the last step did

settingsVars == <<customAudio, currentBpmAnalysis, currentBpm, currentBaseBpm,
                  currentAudioStartTime, currentRounds, currentIncreaseSpeed,
                  currentSpeedIncreasePercent, currentCountdownDuration>>
reactVars == <<isPlaying, activeIndex, revealedIndices, currentRound,
               isFullscreen, countdown, isFinished, toast>>
timerVars == <<intervalRef, bpmCheckIntervalRef, mainTimers, pollTimers,
               countdownIntervals, countdownTimeouts>>
audioVars == <<customEl, defaultEl>>
vars == <<settingsVars, reactVars, timerVars, audioVars, sessions, starts, event>>

----------------------------------------------------------------------------
\* Bounds of the model

MaxStarts == 2          \* startBeat calls that pass validation
GridSize == 2           \* items per grid (stands for gridSize)
MaxRoundCount == 3      \* playSequence is followed while roundCount is at most this

null == -1

AudioIds == {1}
BpmChoices == {91, 120}
RoundChoices == {1, 2}
CountdownChoices == {300, 2000}
StartTimeChoices == {0, 8}

----------------------------------------------------------------------------
\* Program constants

DEFAULT_BPM == 91
BPM_CHANGE_THRESHOLD == 1
COUNTDOWN_MIN == 500

----------------------------------------------------------------------------
\* Exact rationals

RECURSIVE Gcd(_, _)
Gcd(a, b) == IF b = 0 THEN a ELSE Gcd(b, a % b)

Rat(n, d) == LET g == Gcd(n, d) IN IF g = 0 THEN <<0, 1>> ELSE <<n \div g, d \div g>>
RatMul(x, y) == Rat(x[1] * y[1], x[2] * y[2])
RatDiv(x, y) == Rat(x[1] * y[2], x[2] * y[1])
RatLess(x, y) == x[1] * y[2] < y[1] * x[2]
RatAbsDiff(x, y) ==
  LET n == x[1] * y[2] - y[1] * x[2]
  IN  Rat(IF n < 0 THEN -n ELSE n, x[2] * y[2])

undefined == <<0, 0>>

----------------------------------------------------------------------------
\* The whole program state as one record, so that handlers compose
\* (beginPlayback calls playSequence; the effect calls stopBeat, startBeat).

Cur ==
  [customAudio |-> customAudio, currentBpmAnalysis |-> currentBpmAnalysis,
   currentBpm |-> currentBpm, currentBaseBpm |-> currentBaseBpm,
   currentAudioStartTime |-> currentAudioStartTime,
   currentRounds |-> currentRounds,
   currentIncreaseSpeed |-> currentIncreaseSpeed,
   currentSpeedIncreasePercent |-> currentSpeedIncreasePercent,
   currentCountdownDuration |-> currentCountdownDuration,
   isPlaying |-> isPlaying, activeIndex |-> activeIndex,
   revealedIndices |-> revealedIndices, currentRound |-> currentRound,
   isFullscreen |-> isFullscreen, countdown |-> countdown,
   isFinished |-> isFinished, toast |-> toast,
   intervalRef |-> intervalRef, bpmCheckIntervalRef |-> bpmCheckIntervalRef,
   mainTimers |-> mainTimers, pollTimers |-> pollTimers,
   countdownIntervals |-> countdownIntervals,
   countdownTimeouts |-> countdownTimeouts,
   sessions |-> sessions, starts |-> starts,
   customEl |-> customEl, defaultEl |-> defaultEl,
   event |-> event]

\* a closure exists for as long as a live timer refers to it
LiveSessions(S) ==
  S.countdownIntervals \cup S.countdownTimeouts
    \cup {t.sess : t \in S.mainTimers} \cup {p.sess : p \in S.pollTimers}

Becomes(S) ==
  /\ customAudio' = S.customAudio
  /\ currentBpmAnalysis' = S.currentBpmAnalysis
  /\ currentBpm' = S.currentBpm
  /\ currentBaseBpm' = S.currentBaseBpm
  /\ currentAudioStartTime' = S.currentAudioStartTime
  /\ currentRounds' = S.currentRounds
  /\ currentIncreaseSpeed' = S.currentIncreaseSpeed
  /\ currentSpeedIncreasePercent' = S.currentSpeedIncreasePercent
  /\ currentCountdownDuration' = S.currentCountdownDuration
  /\ isPlaying' = S.isPlaying
  /\ activeIndex' = S.activeIndex
  /\ revealedIndices' = S.revealedIndices
  /\ currentRound' = S.currentRound
  /\ isFullscreen' = S.isFullscreen
  /\ countdown' = S.countdown
  /\ isFinished' = S.isFinished
  /\ toast' = S.toast
  /\ intervalRef' = S.intervalRef
  /\ bpmCheckIntervalRef' = S.bpmCheckIntervalRef
  /\ mainTimers' = S.mainTimers
  /\ pollTimers' = S.pollTimers
  /\ countdownIntervals' = S.countdownIntervals
  /\ countdownTimeouts' = S.countdownTimeouts
  /\ sessions' = [s \in LiveSessions(S) |-> S.sessions[s]]
  /\ starts' = S.starts
  /\ customEl' = S.customEl
  /\ defaultEl' = S.defaultEl
  /\ event' = S.event

Ev(type, sess, index) == [type |-> type, sess |-> sess, index |-> index]

----------------------------------------------------------------------------
\* Tempo analysis attached to an uploaded audio (an input of the scheduler)

AnalysisOf(a) ==
  [segments |-> << [startTime |-> 0, endTime |-> 8, bpm |-> 100 + 40 * a],
                   [startTime |-> 8, endTime |-> 12, bpm |-> 100] >>,
   averageBpm |-> 100 + 20 * a,
   silenceOffset |-> 4]

RECURSIVE FirstMatch(_, _, _)
FirstMatch(segments, time, i) ==
  IF i > Len(segments) THEN 0
  ELSE IF /\ time[1] >= segments[i].startTime * time[2]
          /\ time[1] < segments[i].endTime * time[2]
       THEN i
       ELSE FirstMatch(segments, time, i + 1)

\* getBpmAtTime that answers 120 when no segment contains the time
getBpmAtTime_NoFallback(segments, time) ==
  LET i == FirstMatch(segments, time, 1)
  IN  IF i # 0 THEN segments[i].bpm ELSE 120

getBpmAtTime(segments, time) ==
  LET i == FirstMatch(segments, time, 1)
  IN  IF i # 0 THEN segments[i].bpm
      ELSE IF Len(segments) > 0 /\ segments[Len(segments)].bpm # 0
           THEN segments[Len(segments)].bpm
           ELSE 120

----------------------------------------------------------------------------
\* BPM calculations of one closure c (the settings as startBeat's render saw them)

HasAnalysis(c) == c.customAudio # 0 /\ c.analysis # 0

\* a multiplier that counts the rounds from 0 instead of from round 1
RoundMultiplier_PerRound(S, roundNumber) ==
  Rat(100 + S.currentSpeedIncreasePercent * roundNumber, 100)

RoundMultiplier(S, roundNumber) ==
  Rat(100 + S.currentSpeedIncreasePercent * (roundNumber - 1), 100)

\* calculateRoundBpm that takes the detected BPM without the user's multiplier
calculateRoundBpm_DetectedOnly(S, c, roundNumber, audioTime) ==
  LET effectiveBpm ==
        IF HasAnalysis(c) /\ audioTime # undefined
        THEN Rat(getBpmAtTime(AnalysisOf(c.analysis).segments, audioTime), 1)
        ELSE Rat(c.bpm, 1)
  IN  IF ~S.currentIncreaseSpeed THEN effectiveBpm
      ELSE RatMul(effectiveBpm, RoundMultiplier(S, roundNumber))

calculateRoundBpm(S, c, roundNumber, audioTime) ==
  LET effectiveBpm ==
        IF HasAnalysis(c) /\ audioTime # undefined
        THEN RatMul(Rat(getBpmAtTime(AnalysisOf(c.analysis).segments, audioTime), 1),
                    Rat(c.bpm, c.baseBpm))
        ELSE Rat(c.bpm, 1)
  IN  IF ~S.currentIncreaseSpeed THEN effectiveBpm
      ELSE RatMul(effectiveBpm, RoundMultiplier(S, roundNumber))

calculatePlaybackSpeed(S, c, roundNumber) ==
  LET baseBpmValue == IF c.customAudio # 0 THEN c.baseBpm ELSE DEFAULT_BPM
      basePlaybackSpeed == Rat(c.bpm, baseBpmValue)
  IN  IF ~S.currentIncreaseSpeed THEN basePlaybackSpeed
      ELSE RatMul(basePlaybackSpeed, RoundMultiplier(S, roundNumber))

\* a beat interval of half a beat per card
calculateBeatInterval_HalfBeat(bpm) == RatDiv(Rat(30000, 1), bpm)

calculateBeatInterval(bpm) == RatDiv(Rat(60000, 1), bpm)

getIntervalForRound(S, c, round, audioTime) ==
  calculateBeatInterval(calculateRoundBpm(S, c, round, audioTime))

----------------------------------------------------------------------------
\* Browser objects

NewId(timers) ==
  CHOOSE i \in 1..(Cardinality(timers) + 1) :
    /\ \A t \in timers : t.id # i
    /\ \A j \in 1..(i - 1) : \E t \in timers : t.id = j

\* clearInterval(id): a null or dead id clears nothing
clearInterval(timers, id) == {t \in timers : t.id # id}

FreshElement == [playing |-> FALSE, currentTime |-> 0, playbackRate |-> Rat(1, 1)]

\* audioRef = customAudio ? customAudioRef : defaultAudioRef, as closure c sees it
AudioRefOf(c) == IF c.customAudio # 0 THEN "custom" ELSE "default"

\* audioRef.current: the custom element is mounted only while customAudio is set
RefCurrent(S, ref) == IF ref = "custom" THEN S.customAudio # 0 ELSE TRUE

ElementOf(S, ref) == IF ref = "custom" THEN S.customEl ELSE S.defaultEl

WithElement(S, ref, el) ==
  IF ref = "custom" THEN [S EXCEPT !.customEl = el] ELSE [S EXCEPT !.defaultEl = el]

----------------------------------------------------------------------------
\* startBeat

NewClosure(S) ==
  [customAudio |-> S.customAudio, analysis |-> S.currentBpmAnalysis,
   bpm |-> S.currentBpm, baseBpm |-> S.currentBaseBpm,
   index |-> -1, roundCount |-> 1, currentIntervalBpm |-> Rat(0, 1),
   currentGridSize |-> GridSize,
   finished |-> FALSE, advances |-> 0, playRejected |-> FALSE,
   elapsed |-> 0]

\* startBeat that starts every track at the silence offset or 0
StartTimeOf_NoStartTime(S) ==
  IF S.customAudio # 0 /\ S.currentBpmAnalysis # 0
  THEN AnalysisOf(S.currentBpmAnalysis).silenceOffset
  ELSE 0

StartTimeOf(S) ==
  IF S.customAudio # 0 /\ S.currentAudioStartTime > 0
  THEN S.currentAudioStartTime
  ELSE IF S.customAudio # 0 /\ S.currentBpmAnalysis # 0
          /\ AnalysisOf(S.currentBpmAnalysis).silenceOffset # 0
       THEN AnalysisOf(S.currentBpmAnalysis).silenceOffset
       ELSE 0

\* startBeat without the validation of the countdown duration
CountdownValid_Unchecked(S) == TRUE

CountdownValid(S) == ~(S.currentCountdownDuration < COUNTDOWN_MIN)

\* audioRef.current.currentTime/playbackRate/play() of startBeat
StartAudio(S, c, playOk) ==
  LET ref == AudioRefOf(c) IN
  IF ~RefCurrent(S, ref) THEN S
  ELSE LET el == ElementOf(S, ref)
           S1 == WithElement(S, ref,
                   [playing |-> IF playOk THEN TRUE ELSE el.playing,
                    currentTime |-> StartTimeOf(S),
                    playbackRate |-> calculatePlaybackSpeed(S, c, 1)])
       IN  IF playOk THEN S1 ELSE [S1 EXCEPT !.toast = "Failed to play audio"]

\* startBeat that arms the countdown only when play() resolved
ArmCountdown_OnlyIfPlayed(S, s) ==
  IF S.sessions[s].playRejected THEN S
  ELSE [S EXCEPT !.countdown = 3,
                 !.countdownIntervals = S.countdownIntervals \cup {s}]

\* Math.round((currentCountdownDuration * 1000) / 3), the duration held in ms
intervalTime(S) == (2 * S.currentCountdownDuration + 3) \div 6

\* the time since the start request of session s, after one more timer delay
Elapse(S, s) == [S EXCEPT !.sessions[s].elapsed = @ + intervalTime(S)]

\* the countdown interval of startBeat is held in a local const only
ArmCountdown(S, s) ==
  [S EXCEPT !.countdown = 3,
            !.countdownIntervals = S.countdownIntervals \cup {s}]

startBeat(S, seenIsPlaying, playOk) ==
  IF seenIsPlaying THEN S
  ELSE IF ~CountdownValid(S)
  THEN [S EXCEPT !.toast = "Invalid countdown duration",
                 !.event = Ev("startInvalid", 0, null)]
  ELSE LET c == [NewClosure(S) EXCEPT !.playRejected = ~playOk]
           s == S.starts + 1
           S1 == [S EXCEPT !.isFullscreen = TRUE, !.currentRound = 1,
                           !.sessions = S.sessions @@ (s :> c),
                           !.starts = s,
                           !.event = Ev("start", s, null)]
       IN  ArmCountdown(StartAudio(S1, c, playOk), s)

----------------------------------------------------------------------------
\* stopBeat

StopClearTimers(S) ==
  [S EXCEPT !.mainTimers = clearInterval(S.mainTimers, S.intervalRef),
            !.intervalRef = null,
            !.pollTimers = clearInterval(S.pollTimers, S.bpmCheckIntervalRef),
            !.bpmCheckIntervalRef = null]

ResetTimeOf(S) ==
  IF S.currentAudioStartTime > 0 THEN S.currentAudioStartTime
  ELSE IF S.currentBpmAnalysis # 0 /\ AnalysisOf(S.currentBpmAnalysis).silenceOffset # 0
       THEN AnalysisOf(S.currentBpmAnalysis).silenceOffset
       ELSE 0

\* stopBeat that resets only the element selected by the current settings
StopResetAudio_SelectedOnly(S) ==
  IF RefCurrent(S, "custom") /\ S.customAudio # 0
  THEN [S EXCEPT !.customEl = [playing |-> FALSE,
                               currentTime |-> ResetTimeOf(S),
                               playbackRate |-> Rat(1, 1)]]
  ELSE [S EXCEPT !.defaultEl = [playing |-> FALSE, currentTime |-> 0,
                                playbackRate |-> Rat(1, 1)]]

StopResetAudio(S) ==
  LET S1 == IF RefCurrent(S, "custom")
            THEN [S EXCEPT !.customEl = [playing |-> FALSE,
                                         currentTime |-> ResetTimeOf(S),
                                         playbackRate |-> Rat(1, 1)]]
            ELSE S
  IN  [S1 EXCEPT !.defaultEl = [playing |-> FALSE, currentTime |-> 0,
                                playbackRate |-> Rat(1, 1)]]

StopResetState(S) ==
  [S EXCEPT !.isPlaying = FALSE, !.activeIndex = null, !.revealedIndices = {},
            !.currentRound = 0, !.isFullscreen = FALSE, !.countdown = null,
            !.isFinished = FALSE]

stopBeat(S) ==
  [StopResetAudio(StopClearTimers(StopResetState(S))) EXCEPT !.event = Ev("stop", 0, null)]

----------------------------------------------------------------------------
\* beginPlayback and its closures playSequence and updateBpmFromAudio

SetClosure(S, s, c) == [S EXCEPT !.sessions[s] = c]

\* intervalRef.current = window.setInterval(playSequence, interval)
ArmMain(S, s, interval) ==
  LET id == NewId(S.mainTimers)
  IN  [S EXCEPT !.mainTimers = S.mainTimers \cup {[id |-> id, sess |-> s, interval |-> interval]},
                !.intervalRef = id]

\* a rearm that tears the main timer down and arms no new one
RearmMain_TeardownOnly(S, s, interval) ==
  [S EXCEPT !.mainTimers = clearInterval(S.mainTimers, S.intervalRef), !.intervalRef = null]

\* if (intervalRef.current) clearInterval(intervalRef.current), then setInterval
RearmMain(S, s, interval) ==
  ArmMain([S EXCEPT !.mainTimers = clearInterval(S.mainTimers, S.intervalRef)], s, interval)

\* bpmCheckIntervalRef.current = window.setInterval(updateBpmFromAudio, BPM_CHECK_INTERVAL)
ArmPoll(S, s) ==
  LET id == NewId(S.pollTimers)
  IN  [S EXCEPT !.pollTimers = S.pollTimers \cup {[id |-> id, sess |-> s]},
                !.bpmCheckIntervalRef = id]

\* the "Game complete!" branch of playSequence: the background track is left alone
Finish(S, s) ==
  [S EXCEPT !.mainTimers = clearInterval(S.mainTimers, S.intervalRef),
            !.intervalRef = null,
            !.pollTimers = clearInterval(S.pollTimers, S.bpmCheckIntervalRef),
            !.bpmCheckIntervalRef = null,
            !.isPlaying = FALSE, !.activeIndex = null, !.isFinished = TRUE,
            !.sessions[s].finished = TRUE,
            !.event = Ev("finished", s, null)]

\* audioRef.current.playbackRate = calculatePlaybackSpeed(roundCount)
SetRoundRate(S, c) ==
  LET ref == AudioRefOf(c) IN
  IF ~RefCurrent(S, ref) THEN S
  ELSE WithElement(S, ref,
         [ElementOf(S, ref) EXCEPT !.playbackRate = calculatePlaybackSpeed(S, c, c.roundCount)])

\* a round transition that never rearms the main timer
RoundTransition_NeverRearm(S, s) ==
  LET c == [S.sessions[s] EXCEPT !.currentGridSize = GridSize]
      S1 == [SetClosure(S, s, c) EXCEPT !.revealedIndices = {},
                                        !.currentRound = c.roundCount]
  IN  SetRoundRate(S1, c)

\* a round transition that rearms the main timer with or without analysis
RoundTransition_AlwaysRearm(S, s) ==
  LET c == [S.sessions[s] EXCEPT !.currentGridSize = GridSize]
      S1 == [SetClosure(S, s, c) EXCEPT !.revealedIndices = {},
                                        !.currentRound = c.roundCount]
      S2 == SetRoundRate(S1, c)
  IN  RearmMain(S2, s, getIntervalForRound(S2, c, c.roundCount, undefined))

\* the "Start new round with fresh grid" part of playSequence
RoundTransition(S, s) ==
  LET c == [S.sessions[s] EXCEPT !.currentGridSize = GridSize]
      S1 == [SetClosure(S, s, c) EXCEPT !.revealedIndices = {},
                                        !.currentRound = c.roundCount]
      S2 == SetRoundRate(S1, c)
  IN  IF ~HasAnalysis(c)
      THEN RearmMain(S2, s, getIntervalForRound(S2, c, c.roundCount, undefined))
      ELSE S2

\* the tail of playSequence: track round progression, update the active card
Advance(S, s) ==
  LET c == S.sessions[s]
      c1 == [c EXCEPT !.roundCount = IF c.index = c.currentGridSize - 1
                                     THEN c.roundCount + 1 ELSE c.roundCount,
                      !.advances = c.advances + 1]
  IN  [SetClosure(S, s, c1) EXCEPT !.activeIndex = c.index,
                                   !.revealedIndices = S.revealedIndices \cup {c.index},
                                   !.event = Ev("advance", s, c.index)]

playSequence(S, s) ==
  LET c0 == S.sessions[s]
      c == [c0 EXCEPT !.index = (c0.index + 1) % c0.currentGridSize]
      S1 == SetClosure(S, s, c)
  IN  IF c.index = 0 /\ c.roundCount > 1
      THEN IF c.roundCount > S.currentRounds
           THEN Finish(S1, s)
           ELSE Advance(RoundTransition(S1, s), s)
      ELSE Advance(S1, s)

\* a poll that computes the BPM of round 1 whatever the round
updateBpmFromAudio_Round1(S, s) ==
  LET c == S.sessions[s]
      ref == AudioRefOf(c)
  IN  IF ~(RefCurrent(S, ref) /\ HasAnalysis(c)) THEN [S EXCEPT !.event = Ev("poll", s, null)]
      ELSE LET el == ElementOf(S, ref)
               audioTime == RatDiv(Rat(el.currentTime, 1), el.playbackRate)
               newBpm == calculateRoundBpm(S, c, 1, audioTime)
               S1 == [S EXCEPT !.event = Ev("poll", s, null)]
           IN  IF RatLess(Rat(BPM_CHANGE_THRESHOLD, 1), RatAbsDiff(newBpm, c.currentIntervalBpm))
               THEN RearmMain(SetClosure(S1, s, [c EXCEPT !.currentIntervalBpm = newBpm]),
                              s, calculateBeatInterval(newBpm))
               ELSE S1

updateBpmFromAudio(S, s) ==
  LET c == S.sessions[s]
      ref == AudioRefOf(c)
  IN  IF ~(RefCurrent(S, ref) /\ HasAnalysis(c)) THEN [S EXCEPT !.event = Ev("poll", s, null)]
      ELSE LET el == ElementOf(S, ref)
               audioTime == RatDiv(Rat(el.currentTime, 1), el.playbackRate)
               newBpm == calculateRoundBpm(S, c, c.roundCount, audioTime)
               S1 == [S EXCEPT !.event = Ev("poll", s, null)]
           IN  IF RatLess(Rat(BPM_CHANGE_THRESHOLD, 1), RatAbsDiff(newBpm, c.currentIntervalBpm))
               THEN RearmMain(SetClosure(S1, s, [c EXCEPT !.currentIntervalBpm = newBpm]),
                              s, calculateBeatInterval(newBpm))
               ELSE S1

beginPlayback(S, s) ==
  LET c == [S.sessions[s] EXCEPT !.index = -1, !.roundCount = 1,
                                 !.currentIntervalBpm = calculateRoundBpm(S, S.sessions[s], 1, Rat(0, 1)),
                                 !.currentGridSize = GridSize]
      S1 == [SetClosure(S, s, c) EXCEPT !.isPlaying = TRUE, !.revealedIndices = {}]
      S2 == IF HasAnalysis(c) THEN ArmPoll(S1, s) ELSE S1
      S3 == playSequence(S2, s)
  IN  ArmMain(S3, s, getIntervalForRound(S3, S3.sessions[s], S3.sessions[s].roundCount, Rat(0, 1)))

----------------------------------------------------------------------------
\* Settings callbacks and the effect on currentBpm

\* useEffect(() => { if (isPlaying) { stopBeat(); startBeat() } }, [currentBpm]):
\* both calls are the closures of the render that saw isPlaying
BpmEffect(S, oldBpm, playOk) ==
  IF S.currentBpm # oldBpm /\ S.isPlaying
  THEN startBeat(stopBeat(S), S.isPlaying, playOk)
  ELSE S

\* <audio ref={customAudioRef} src={customAudio}>: a new source reloads the element
MountCustom(S, a) ==
  [S EXCEPT !.customAudio = a,
            !.customEl = IF a = S.customAudio THEN S.customEl ELSE FreshElement]

onAudioUpload(S, a, analysed) ==
  LET S1 == [MountCustom(S, a) EXCEPT !.currentBpmAnalysis = IF analysed THEN a ELSE 0,
                                      !.currentAudioStartTime = 0,
                                      !.event = Ev("upload", 0, null)]
  IN  IF analysed
      THEN [S1 EXCEPT !.currentBaseBpm = AnalysisOf(a).averageBpm,
                      !.currentBpm = AnalysisOf(a).averageBpm]
      ELSE S1

\* reader.onload of handleFileUpload: analyzeBpm resolved (analysed) or threw
handleFileUpload(S, a, analysed) ==
  [onAudioUpload(S, a, analysed) EXCEPT
     !.toast = IF analysed THEN "Audio uploaded! Average BPM"
               ELSE "Audio uploaded, but BPM analysis failed. Using manual BPM.",
     !.event = Ev(IF analysed THEN "upload" ELSE "uploadUnanalysed", 0, null)]

onAudioRemove(S) ==
  [MountCustom(S, 0) EXCEPT !.currentBpmAnalysis = 0,
                            !.currentBaseBpm = DEFAULT_BPM,
                            !.currentBpm = DEFAULT_BPM,
                            !.currentAudioStartTime = 0,
                            !.event = Ev("remove", 0, null)]

----------------------------------------------------------------------------
\* Actions

Init ==
  /\ customAudio \in {0} \cup AudioIds
  /\ currentBpmAnalysis \in {0, customAudio}
  /\ currentBpm \in BpmChoices
  /\ currentBaseBpm = IF currentBpmAnalysis # 0 THEN AnalysisOf(currentBpmAnalysis).averageBpm
                      ELSE DEFAULT_BPM
  /\ currentAudioStartTime \in StartTimeChoices
  /\ currentRounds \in RoundChoices
  /\ currentIncreaseSpeed \in BOOLEAN
  /\ currentSpeedIncreasePercent = 10
  /\ currentCountdownDuration \in CountdownChoices
  /\ isPlaying = FALSE
  /\ activeIndex = null
  /\ revealedIndices = {}
  /\ currentRound = 0
  /\ isFullscreen = FALSE
  /\ countdown = null
  /\ isFinished = FALSE
  /\ toast = "none"
  /\ intervalRef = null
  /\ bpmCheckIntervalRef = null
  /\ mainTimers = {}
  /\ pollTimers = {}
  /\ countdownIntervals = {}
  /\ countdownTimeouts = {}
  /\ sessions = << >>
  /\ starts = 0
  /\ customEl = FreshElement
  /\ defaultEl = FreshElement
  /\ event = Ev("init", 0, null)

CanStart == starts < MaxStarts

\* the play/pause button of the floating menu, shown while not fullscreen
HandlePlayPause ==
  /\ ~isFullscreen
  /\ isPlaying \/ CanStart
  /\ \E playOk \in BOOLEAN :
       Becomes(IF isPlaying THEN stopBeat(Cur) ELSE startBeat(Cur, isPlaying, playOk))

\* the Stop button of the game view and the Exit button of the completion view
StopButton ==
  /\ isFullscreen
  /\ countdown = null
  /\ Becomes(stopBeat(Cur))

\* timers armed with the same delay fire in the order in which they were armed
OldestCountdown(s) == \A o \in countdownIntervals \cup countdownTimeouts : s <= o

\* a tick of the countdown interval of session s
CountdownTick(s) ==
  /\ s \in countdownIntervals
  /\ OldestCountdown(s)
  /\ IF countdown = null \/ countdown <= 1
     THEN Becomes([Elapse(Cur, s) EXCEPT !.countdownIntervals = countdownIntervals \ {s},
                                         !.countdownTimeouts = countdownTimeouts \cup {s},
                                         !.countdown = null,
                                         !.event = Ev("countdownEnd", s, null)])
     ELSE Becomes([Elapse(Cur, s) EXCEPT !.countdown = countdown - 1,
                                         !.event = Ev("countdownTick", s, null)])

\* the setTimeout callback armed by the last countdown tick of session s
CountdownTimeout(s) ==
  /\ s \in countdownTimeouts
  /\ OldestCountdown(s)
  /\ Becomes(beginPlayback([Elapse(Cur, s) EXCEPT !.countdownTimeouts = countdownTimeouts \ {s},
                                                  !.countdown = null], s))

BeatTick(t) ==
  /\ t \in mainTimers
  /\ sessions[t.sess].roundCount <= MaxRoundCount
  /\ Becomes(playSequence(Cur, t.sess))

PollTick(p) ==
  /\ p \in pollTimers
  /\ Becomes(updateBpmFromAudio(Cur, p.sess))

NextPosition(t) == (t + 4) % 12

\* a playing element moves on through its (looping) track
AudioProgress ==
  \/ /\ customEl.playing
     /\ Becomes([Cur EXCEPT !.customEl.currentTime = NextPosition(@),
                             !.event = Ev("audio", 0, null)])
  \/ /\ defaultEl.playing
     /\ Becomes([Cur EXCEPT !.defaultEl.currentTime = NextPosition(@),
                             !.event = Ev("audio", 0, null)])

\* setBpm from the debounced slider or an asynchronous settings load
SetBpm(v) ==
  /\ v # currentBpm
  /\ \E playOk \in BOOLEAN :
       Becomes(BpmEffect([Cur EXCEPT !.currentBpm = v, !.event = Ev("setBpm", 0, null)],
                         currentBpm, playOk))

AudioUpload(a, analysed) ==
  /\ \E playOk \in BOOLEAN :
       Becomes(BpmEffect(handleFileUpload(Cur, a, analysed), currentBpm, playOk))

AudioRemove ==
  /\ ~isFullscreen
  /\ customAudio # 0
  /\ \E playOk \in BOOLEAN :
       Becomes(BpmEffect(onAudioRemove(Cur), currentBpm, playOk))

Next ==
  \/ HandlePlayPause
  \/ StopButton
  \/ \E s \in countdownIntervals : CountdownTick(s)
  \/ \E s \in countdownTimeouts : CountdownTimeout(s)
  \/ \E t \in mainTimers : BeatTick(t)
  \/ \E p \in pollTimers : PollTick(p)
  \/ AudioProgress

Spec == Init /\ [][Next]_vars

\* The scheduler while the settings change under it

InitSettings ==
  /\ Init
  /\ currentRounds = 1
  /\ ~currentIncreaseSpeed
  /\ currentCountdownDuration >= COUNTDOWN_MIN
  /\ currentAudioStartTime = 0

NextSettings ==
  \/ Next
  \/ \E v \in BpmChoices : SetBpm(v)
  \/ \E a \in AudioIds, analysed \in BOOLEAN : AudioUpload(a, analysed)
  \/ AudioRemove

SpecSettings == InitSettings /\ [][NextSettings]_vars

----------------------------------------------------------------------------
\* The scheduler state that the presentation layer shows

SchedulerState ==
  IF isPlaying THEN "Active"
  ELSE IF isFinished THEN "Finished"
  ELSE IF isFullscreen THEN "Countdown"
  ELSE "Idle"

----------------------------------------------------------------------------
\* C1: when a session reaches the end of its final round the scheduler is
\* Finished, the main timer and the poll timer are cancelled, and no advance
\* event fires while it stays Finished.
C1_FinishedCancelsTimers ==
  [][ /\ event'.type = "finished" =>
           (isFinished' /\ mainTimers' = {} /\ pollTimers' = {})
      /\ (isFinished /\ isFinished') => event'.type # "advance" ]_vars

\* C2: after Stop the scheduler is Idle, and from Idle nothing but a start
\* request acts: no advance event fires and Active is not entered.
C2_NoStragglerAfterStop ==
  [][ /\ event'.type = "stop" => SchedulerState' = "Idle"
      /\ (SchedulerState = "Idle" /\ event'.type # "start") =>
           (event'.type # "advance" /\ SchedulerState' = "Idle") ]_vars

\* C3: after Stop the scheduler is Idle, no main or poll timer is armed, both
\* elements are paused at rate 1, the custom element is at audioStartTime or
\* else at the silence offset, the default element is at 0, and cursor, round,
\* revealed set and finished flag are cleared.
StoppedElement(t) == [playing |-> FALSE, currentTime |-> t, playbackRate |-> Rat(1, 1)]

C3_AfterStop ==
  [][ event'.type = "stop" =>
        /\ SchedulerState' = "Idle"
        /\ intervalRef' = null /\ bpmCheckIntervalRef' = null
        /\ mainTimers' = {} /\ pollTimers' = {}
        /\ customAudio' # 0 =>
             customEl' = StoppedElement(
               IF currentAudioStartTime' > 0 THEN currentAudioStartTime'
               ELSE IF currentBpmAnalysis' # 0
                    THEN AnalysisOf(currentBpmAnalysis').silenceOffset ELSE 0)
        /\ defaultEl' = StoppedElement(0)
        /\ activeIndex' = null /\ currentRound' = 0
        /\ revealedIndices' = {} /\ ~isFinished' ]_vars

\* C4: the scheduler state changes only along Idle -> Countdown (start),
\* Countdown -> Active, Active -> Finished, and any state -> Idle (stop).
AllowedTransitions ==
  { <<"Idle", "Countdown">>, <<"Countdown", "Active">>, <<"Active", "Finished">>,
    <<"Countdown", "Idle">>, <<"Active", "Idle">>, <<"Finished", "Idle">> }

C4_OnlyAllowedTransitions ==
  [][ /\ SchedulerState' # SchedulerState =>
           <<SchedulerState, SchedulerState'>> \in AllowedTransitions
      /\ (SchedulerState = "Idle" /\ SchedulerState' = "Countdown") => event'.type = "start"
      /\ (SchedulerState # "Idle" /\ SchedulerState' = "Idle") => event'.type = "stop" ]_vars

\* C5: the advance events move the cursor forward by one, from null to 0 and
\* from N-1 to 0, and Finished is entered by the session that was started
\* last, after exactly R*N of its advance events.
C5_AdvancesInOrder ==
  [][ /\ event'.type = "advance" =>
           activeIndex' = IF activeIndex = null THEN 0 ELSE (activeIndex + 1) % GridSize
      /\ (event'.type = "finished" /\ ~isFinished) =>
           /\ event'.sess = starts
           /\ sessions[event'.sess].advances = currentRounds * GridSize ]_vars

\* C6: with a countdown duration below 0.5 s a start request only reports the
\* error "Invalid countdown duration": the scheduler stays Idle and no state,
\* timer or audio element changes.
C6_InvalidCountdownRejected ==
  [][ currentCountdownDuration < COUNTDOWN_MIN =>
        /\ event'.type = "startInvalid"
        /\ toast' = "Invalid countdown duration"
        /\ SchedulerState' = "Idle"
        /\ UNCHANGED <<settingsVars, timerVars, audioVars, sessions, starts>>
        /\ UNCHANGED <<isPlaying, activeIndex, revealedIndices, currentRound,
                       isFullscreen, countdown, isFinished>> ]_vars

C6_Witness == event.type = "startInvalid" /\ SchedulerState = "Idle"

\* C7: every start arms the countdown, whether play() resolved or not, and a
\* rejected play() is reported as the warning "Failed to play audio"; the
\* rejected session then enters Active with its first advance, its k-th
\* advance activates item k mod N, and it finishes after exactly R*N
\* advances, as a session whose audio started does.
C7_PlayRejectionTolerated ==
  [][ /\ event'.type = "start" =>
           /\ event'.sess \in DOMAIN sessions'
           /\ event'.sess \in countdownIntervals'
           /\ countdown' = 3 /\ isFullscreen'
           /\ sessions'[event'.sess].playRejected => toast' = "Failed to play audio"
      /\ \A s \in DOMAIN sessions :
           (sessions[s].playRejected /\ ~sessions[s].finished) =>
             /\ (event'.type = "advance" /\ event'.sess = s) =>
                  /\ event'.index = sessions[s].advances % GridSize
                  /\ sessions[s].advances < currentRounds * GridSize
                  /\ sessions[s].advances = 0 => isPlaying'
             /\ (event'.type = "finished" /\ event'.sess = s) =>
                  sessions[s].advances = currentRounds * GridSize ]_vars

C7_Witness ==
  /\ event.type = "finished"
  /\ event.sess \in DOMAIN sessions
  /\ sessions[event.sess].playRejected
  /\ sessions[event.sess].advances = currentRounds * GridSize
  /\ toast = "Failed to play audio"

\* C9: entering Finished sets the finished flag and cancels both timers, and
\* leaves both audio elements as they are; a playing element keeps playing
\* until Stop.
C9_FinishedKeepsAudio ==
  [][ /\ event'.type = "finished" =>
           /\ isFinished'
           /\ mainTimers' = {} /\ pollTimers' = {}
           /\ customEl' = customEl /\ defaultEl' = defaultEl
      /\ (isFinished /\ event'.type # "stop") =>
           /\ customEl.playing => customEl'.playing
           /\ defaultEl.playing => defaultEl'.playing ]_vars

\* C8: a change of the BPM while Active stops the running session (its timers
\* are cancelled) and starts a new one: a new countdown begins for a session
\* that holds the new BPM and starts from round 1.
C8_BpmChangeRestarts ==
  [][ (isPlaying /\ currentBpm' # currentBpm) =>
        /\ mainTimers' = {} /\ pollTimers' = {}
        /\ starts' = starts + 1
        /\ starts' \in DOMAIN sessions'
        /\ sessions'[starts'].bpm = currentBpm'
        /\ starts' \in countdownIntervals'
        /\ countdown' = 3 /\ isFullscreen' /\ currentRound' = 1 ]_vars

\* C10: the two background elements never play at the same time, and a step
\* of a session changes no element other than the one its start selected from
\* the custom audio configured then.
C10_OneElementDriven ==
  [][ /\ ~(customEl'.playing /\ defaultEl'.playing)
      /\ (event'.type \in {"start", "advance", "poll", "finished"}
            /\ event'.sess \in DOMAIN sessions') =>
           IF sessions'[event'.sess].customAudio # 0
           THEN defaultEl' = defaultEl
           ELSE customEl' = customEl ]_vars

C10_Witness ==
  /\ event.type = "advance"
  /\ event.sess \in DOMAIN sessions
  /\ sessions[event.sess].customAudio = 0
  /\ customAudio # 0
  /\ defaultEl.playing /\ ~customEl.playing

----------------------------------------------------------------------------
\* The element that a start drives, as the settings select it
ActiveElement == IF customAudio # 0 THEN customEl ELSE defaultEl

Round1Rate == Rat(currentBpm, IF customAudio # 0 THEN currentBaseBpm ELSE DEFAULT_BPM)

\* C11: a valid start begins playback at once, while the countdown shows 3, on
\* the active element at audioStartTime if it is set, otherwise at the silence
\* offset of the analysis if there is one, otherwise at 0, at the round-1 rate.
C11_StartsAtStartTime ==
  [][ event'.type = "start" =>
        /\ countdown' = 3
        /\ ~sessions'[event'.sess].playRejected => ActiveElement'.playing
        /\ ActiveElement'.playbackRate = Round1Rate'
        /\ ActiveElement'.currentTime =
             IF currentAudioStartTime > 0 THEN currentAudioStartTime
             ELSE IF currentBpmAnalysis # 0
                  THEN AnalysisOf(currentBpmAnalysis).silenceOffset
                  ELSE 0 ]_vars

\* C11 (amended): as above, but audioStartTime and the silence offset apply to
\* custom audio only; the default track always starts at 0.
C11_StartsAtStartTimeOfCustomAudio ==
  [][ event'.type = "start" =>
        /\ countdown' = 3
        /\ ~sessions'[event'.sess].playRejected => ActiveElement'.playing
        /\ ActiveElement'.playbackRate = Round1Rate'
        /\ ActiveElement'.currentTime =
             IF customAudio = 0 THEN 0
             ELSE IF currentAudioStartTime > 0 THEN currentAudioStartTime
             ELSE IF currentBpmAnalysis # 0
                  THEN AnalysisOf(currentBpmAnalysis).silenceOffset
                  ELSE 0 ]_vars

C11_Witness ==
  /\ event.type = "start"
  /\ customAudio # 0 /\ currentAudioStartTime > 0
  /\ customEl.playing /\ customEl.currentTime = currentAudioStartTime
  /\ countdown = 3 /\ ~isPlaying

\* C12: the countdown shows 3, 2, 1 in that order; the last countdown tick of
\* a session comes after its digit 1 was shown; the sequencing routine of a
\* session runs once, after that; and no advance event fires while a
\* countdown is in progress.
CountdownSteps == { <<null, 3>>, <<3, 2>>, <<2, 1>>, <<1, null>> }

C12_CountdownThenSequence ==
  [][ /\ countdown' # countdown => <<countdown, countdown'>> \in CountdownSteps
      /\ event'.type = "countdownEnd" => countdown = 1
      /\ \A s \in countdownTimeouts \ countdownTimeouts' :
           /\ event'.type = "advance" /\ event'.sess = s
           /\ sessions[s].advances = 0
           /\ \A t \in mainTimers : t.sess # s
      /\ event'.type = "advance" =>
           (countdown' = null /\ countdownIntervals' = {} /\ countdownTimeouts' = {}) ]_vars

\* C13: the first card of a session is activated countdownDuration after its
\* start request, that is after three digit intervals (each digit interval is
\* rounded to a whole millisecond, which moves the sum by at most 2 ms).
C13_FirstCardAfterCountdownDuration ==
  [][ \A s \in DOMAIN sessions :
        (event'.type = "advance" /\ event'.sess = s /\ sessions[s].advances = 0) =>
          /\ sessions'[s].elapsed = 3 * intervalTime(Cur)
          /\ sessions'[s].elapsed - currentCountdownDuration \in -2 .. 2 ]_vars

----------------------------------------------------------------------------
\* The BPM calculations as functions of the settings, of the round and of the
\* audio position

BaseBpmChoices == {91, 110, 120}
PercentChoices == {5, 10}
CalcPositions == {Rat(0, 1), Rat(4, 1), Rat(16, 3), Rat(8, 1), Rat(13, 1), undefined}

CalcEv(round, position, bpm, rate) ==
  [type |-> "calc", sess |-> 0, index |-> null, round |-> round,
   position |-> position, bpm |-> bpm, rate |-> rate,
   interval |-> calculateBeatInterval(bpm)]

\* the settings as the storage can hold them: every key is stored on its own
InitCalc ==
  /\ customAudio \in {0} \cup AudioIds
  /\ currentBpmAnalysis \in {0} \cup AudioIds
  /\ currentBpm \in BpmChoices
  /\ currentBaseBpm \in BaseBpmChoices
  /\ currentAudioStartTime = 0
  /\ currentRounds = MaxRoundCount
  /\ currentIncreaseSpeed \in BOOLEAN
  /\ currentSpeedIncreasePercent \in PercentChoices
  /\ currentCountdownDuration = 2000
  /\ isPlaying = FALSE /\ activeIndex = null /\ revealedIndices = {}
  /\ currentRound = 0 /\ isFullscreen = FALSE /\ countdown = null
  /\ isFinished = FALSE /\ toast = "none"
  /\ intervalRef = null /\ bpmCheckIntervalRef = null
  /\ mainTimers = {} /\ pollTimers = {}
  /\ countdownIntervals = {} /\ countdownTimeouts = {}
  /\ sessions = << >> /\ starts = 0
  /\ customEl = FreshElement /\ defaultEl = FreshElement
  /\ event = CalcEv(0, undefined, Rat(0, 1), Rat(0, 1))

\* calculateRoundBpm(roundNumber, audioTime) and calculatePlaybackSpeed(roundNumber)
Calculate(roundNumber, audioTime) ==
  LET c == NewClosure(Cur)
  IN  Becomes([Cur EXCEPT !.event = CalcEv(roundNumber, audioTime,
                                            calculateRoundBpm(Cur, c, roundNumber, audioTime),
                                            calculatePlaybackSpeed(Cur, c, roundNumber))])

NextCalc == \E roundNumber \in 1 .. MaxRoundCount, audioTime \in CalcPositions :
              Calculate(roundNumber, audioTime)

SpecCalc == InitCalc /\ [][NextCalc]_vars

\* the segments of the stored analysis that contain the position of the event
Containing ==
  IF currentBpmAnalysis = 0 \/ event.position = undefined THEN {}
  ELSE LET segs == AnalysisOf(currentBpmAnalysis).segments
       IN  { i \in 1 .. Len(segs) :
               /\ segs[i].startTime * event.position[2] <= event.position[1]
               /\ event.position[1] < segs[i].endTime * event.position[2] }

\* the round speed multiplier of the event's round, times 100
Multiplier100 ==
  IF currentIncreaseSpeed THEN 100 + currentSpeedIncreasePercent * (event.round - 1) ELSE 100

\* C14: effectiveBpm(round, position) is userBpm when there is no analysis or
\* no position, and (BPM of the segment containing the position) * userBpm /
\* baseBpm when there are an analysis and a position; either is then
\* multiplied by the round speed multiplier.
C14_EffectiveBpm ==
  event.round >= 1 =>
    IF currentBpmAnalysis = 0 \/ event.position = undefined
    THEN event.bpm = Rat(currentBpm * Multiplier100, 100)
    ELSE \A i \in Containing :
           event.bpm = Rat(AnalysisOf(currentBpmAnalysis).segments[i].bpm
                             * currentBpm * Multiplier100,
                           currentBaseBpm * 100)

\* C14 (amended): the analysis is used only with custom audio configured; the
\* result is userBpm when there is no custom audio, no analysis or no
\* position, and otherwise (BPM of the segment containing the position, or of
\* the last segment when none contains it) * userBpm / baseBpm; either is
\* then multiplied by the round speed multiplier.
C14_EffectiveBpmOfCustomAudio ==
  event.round >= 1 =>
    IF customAudio = 0 \/ currentBpmAnalysis = 0 \/ event.position = undefined
    THEN event.bpm = Rat(currentBpm * Multiplier100, 100)
    ELSE LET segs == AnalysisOf(currentBpmAnalysis).segments
             i == IF Containing = {} THEN Len(segs)
                  ELSE CHOOSE j \in Containing : \A k \in Containing : j <= k
         IN  event.bpm = Rat(segs[i].bpm * currentBpm * Multiplier100,
                             currentBaseBpm * 100)

C14_Witness ==
  /\ event.type = "calc" /\ event.round = 3
  /\ customAudio # 0 /\ currentBpmAnalysis # 0
  /\ event.position = Rat(16, 3)
  /\ currentIncreaseSpeed /\ currentSpeedIncreasePercent = 10
  /\ currentBpm = 91 /\ currentBaseBpm = 110
  /\ event.bpm = Rat(140 * 91 * 120, 110 * 100)

\* the effective BPM and the playback rate of the event's round and position
\* with the speed increase switched on or off
BpmWith(increase) ==
  calculateRoundBpm([Cur EXCEPT !.currentIncreaseSpeed = increase], NewClosure(Cur),
                    event.round, event.position)

RateWith(increase) ==
  calculatePlaybackSpeed([Cur EXCEPT !.currentIncreaseSpeed = increase], NewClosure(Cur),
                         event.round)

\* C15: with speed increase enabled the effective BPM and the playback rate
\* are those with it disabled times 1 + (speedIncreasePercent/100) *
\* (roundNumber - 1); at round 1 they are equal; and at 10% per round the
\* round-3 multiplier is exactly 1.2.
C15_RoundMultiplier ==
  event.round >= 1 =>
    /\ event.bpm = BpmWith(currentIncreaseSpeed)
    /\ event.rate = RateWith(currentIncreaseSpeed)
    /\ BpmWith(TRUE) = RatMul(BpmWith(FALSE),
                              Rat(100 + currentSpeedIncreasePercent * (event.round - 1), 100))
    /\ RateWith(TRUE) = RatMul(RateWith(FALSE),
                               Rat(100 + currentSpeedIncreasePercent * (event.round - 1), 100))
    /\ event.round = 1 => (BpmWith(TRUE) = BpmWith(FALSE) /\ RateWith(TRUE) = RateWith(FALSE))
    /\ (currentSpeedIncreasePercent = 10 /\ event.round = 3) =>
         /\ BpmWith(TRUE) = RatMul(BpmWith(FALSE), Rat(12, 10))
         /\ RateWith(TRUE) = RatMul(RateWith(FALSE), Rat(12, 10))

C15_Witness ==
  /\ event.type = "calc" /\ event.round = 3
  /\ currentIncreaseSpeed /\ currentSpeedIncreasePercent = 10
  /\ event.position = undefined
  /\ event.bpm = Rat(currentBpm * 12, 10)

\* the round that the session started last is in: its roundCount is already
\* raised while the last card of a round is the active one
RoundInProgress ==
  LET c == sessions[starts]
  IN  IF c.index = c.currentGridSize - 1 THEN c.roundCount - 1 ELSE c.roundCount

\* (userBpm / B) * multiplier(k)
RateOfRound(k) ==
  Rat(currentBpm * (IF currentIncreaseSpeed
                    THEN 100 + currentSpeedIncreasePercent * (k - 1) ELSE 100),
      (IF customAudio # 0 THEN currentBaseBpm ELSE DEFAULT_BPM) * 100)

\* C16: from start until Stop, while round k of the session is in progress
\* the playback rate of the active element is (userBpm / B) * multiplier(k),
\* and the rate changes only at the start and when the session enters a new
\* round.
C16_RateFollowsRound ==
  [][ (isFullscreen' /\ ~isFinished' /\ starts' \in DOMAIN sessions') =>
        /\ ActiveElement'.playbackRate = RateOfRound(RoundInProgress)'
        /\ ActiveElement'.playbackRate # ActiveElement.playbackRate =>
             \/ event'.type = "start"
             \/ /\ event'.type = "advance" /\ event'.sess = starts'
                /\ event'.index = 0 /\ currentRound' = RoundInProgress' ]_vars

\* the effective BPM that session s has when a step arms its main timer: at
\* the position 0 in beginPlayback, at the audio position in the poll, and
\* without a position at a round transition
ArmedBpm(s) ==
  LET c == sessions'[s]
      el == IF c.customAudio # 0 THEN customEl ELSE defaultEl
      position == IF event'.type = "poll"
                  THEN <<el.currentTime * el.playbackRate[2], el.playbackRate[1]>>
                  ELSE IF s \in countdownTimeouts THEN <<0, 1>> ELSE undefined
      segs == AnalysisOf(c.analysis).segments
      inside == { i \in 1 .. Len(segs) :
                    /\ segs[i].startTime * position[2] <= position[1]
                    /\ position[1] < segs[i].endTime * position[2] }
      detected == IF inside = {} THEN segs[Len(segs)].bpm
                  ELSE segs[CHOOSE i \in inside : TRUE].bpm
      multiplier == IF currentIncreaseSpeed
                    THEN 100 + currentSpeedIncreasePercent * (c.roundCount - 1) ELSE 100
  IN  IF c.customAudio # 0 /\ c.analysis # 0 /\ position # undefined
      THEN Rat(detected * c.bpm * multiplier, c.baseBpm * 100)
      ELSE Rat(c.bpm * multiplier, 100)

----------------------------------------------------------------------------
\* The tempo analyzer: analyzeBpmSegments and smoothSegments.  Times are held
\* in ticks of 50 ms, so that a second is 20 ticks and a minute 1200.

segmentDuration == 160
DurationChoices == {80, 160, 170, 330, 480, 500}
PeakCandidates == {4, 8, 20, 50, 110, 164, 180, 196, 215, 240, 330, 340, 420, 484, 492}

RECURSIVE SortedSeq(_)
SortedSeq(S) ==
  IF S = {} THEN << >>
  ELSE LET m == CHOOSE x \in S : \A y \in S : x <= y
       IN  <<m>> \o SortedSeq(S \ {m})

\* intervals.sort((a, b) => a - b)
RECURSIVE sort(_)
sort(seq) ==
  IF Len(seq) <= 1 THEN seq
  ELSE LET rest == sort(Tail(seq))
           low == SelectSeq(rest, LAMBDA x : x < Head(seq))
           high == SelectSeq(rest, LAMBDA x : x >= Head(seq))
       IN  low \o <<Head(seq)>> \o high

\* Math.round of a non-negative fraction
MathRound(x) == (2 * x[1] + x[2]) \div (2 * x[2])

\* if (bpm < 80) bpm *= 2
DoubleWhileLow_Once(bpm) ==
  IF RatLess(bpm, Rat(80, 1)) THEN RatMul(bpm, Rat(2, 1)) ELSE bpm

\* while (bpm < 80) bpm *= 2
RECURSIVE DoubleWhileLow(_)
DoubleWhileLow(bpm) ==
  IF RatLess(bpm, Rat(80, 1)) THEN DoubleWhileLow(RatMul(bpm, Rat(2, 1))) ELSE bpm

\* a fold that never halves
HalveWhileHigh_Never(bpm) == bpm

\* while (bpm > 180) bpm /= 2
RECURSIVE HalveWhileHigh(_)
HalveWhileHigh(bpm) ==
  IF RatLess(Rat(180, 1), bpm) THEN HalveWhileHigh(RatDiv(bpm, Rat(2, 1))) ELSE bpm

Fold(bpm) == HalveWhileHigh(DoubleWhileLow(bpm))

segmentPeaks(peaks, startTime, endTime) ==
  SelectSeq(peaks, LAMBDA p : p >= startTime /\ p < endTime)

\* a median that takes the lower of the two middle intervals
medianInterval_LowerMiddle(sp) ==
  LET intervals == sort([j \in 1 .. Len(sp) - 1 |-> sp[j + 1] - sp[j]])
  IN  intervals[(Len(intervals) + 1) \div 2]

medianInterval(sp) ==
  LET intervals == sort([j \in 1 .. Len(sp) - 1 |-> sp[j + 1] - sp[j]])
  IN  intervals[(Len(intervals) \div 2) + 1]

\* 60 / medianInterval, the interval in ticks
RawBpm(sp) == Rat(1200, medianInterval(sp))

\* a pass that gives every window with fewer than 2 peaks 120 BPM
SegmentOf_Always120(peaks, totalDuration, i, segments) ==
  LET startTime == i * segmentDuration
      endTime == IF (i + 1) * segmentDuration < totalDuration
                 THEN (i + 1) * segmentDuration ELSE totalDuration
      sp == segmentPeaks(peaks, startTime, endTime)
  IN  [startTime |-> startTime, endTime |-> endTime,
       bpm |-> IF Len(sp) < 2 THEN 120 ELSE MathRound(Fold(RawBpm(sp)))]

\* one pass of the loop of analyzeBpmSegments
SegmentOf(peaks, totalDuration, i, segments) ==
  LET startTime == i * segmentDuration
      endTime == IF (i + 1) * segmentDuration < totalDuration
                 THEN (i + 1) * segmentDuration ELSE totalDuration
      sp == segmentPeaks(peaks, startTime, endTime)
  IN  [startTime |-> startTime, endTime |-> endTime,
       bpm |-> IF Len(sp) < 2
               THEN IF Len(segments) > 0 THEN segments[Len(segments)].bpm ELSE 120
               ELSE MathRound(Fold(RawBpm(sp)))]

\* a segment count that leaves out a last window shorter than 8 s
numSegments_WholeWindows(totalDuration) ==
  LET floor == totalDuration \div segmentDuration
  IN  IF floor > 1 THEN floor ELSE 1

numSegments(totalDuration) ==
  LET ceil == (totalDuration + segmentDuration - 1) \div segmentDuration
  IN  IF ceil > 1 THEN ceil ELSE 1

RECURSIVE RawSegments(_, _, _, _)
RawSegments(peaks, totalDuration, i, segments) ==
  IF i >= numSegments(totalDuration) THEN segments
  ELSE RawSegments(peaks, totalDuration, i + 1,
                   Append(segments, SegmentOf(peaks, totalDuration, i, segments)))

\* the loop of smoothSegments, which writes into the array that it reads
RECURSIVE SmoothFrom(_, _)
SmoothFrom(segments, i) ==
  IF i > Len(segments) - 1 THEN segments
  ELSE LET prev == segments[i - 1].bpm
           current == segments[i].bpm
           next == segments[i + 1].bpm
           far == 2 * current - (prev + next) > 20 \/ (prev + next) - 2 * current > 20
       IN  SmoothFrom(IF far THEN [segments EXCEPT ![i].bpm = (prev + next + 1) \div 2]
                      ELSE segments, i + 1)

\* smoothing that runs the pass a second time over its own result
smoothSegments_Twice(segments) ==
  IF Len(segments) <= 2 THEN segments ELSE SmoothFrom(SmoothFrom(segments, 2), 2)

smoothSegments(segments) == IF Len(segments) <= 2 THEN segments ELSE SmoothFrom(segments, 2)

analyzeBpmSegments(peaks, totalDuration) ==
  smoothSegments(RawSegments(peaks, totalDuration, 0, << >>))

RECURSIVE SumBpm(_, _)
SumBpm(segments, i) == IF i > Len(segments) THEN 0 ELSE segments[i].bpm + SumBpm(segments, i + 1)

\* an average that is cut off instead of rounded
averageBpm_Truncated(segments) == SumBpm(segments, 1) \div Len(segments)

averageBpm(segments) == MathRound(<<SumBpm(segments, 1), Len(segments)>>)

AnalyzerEv(peaks, duration, segments) ==
  [type |-> "analysis", sess |-> 0, index |-> null, peaks |-> peaks,
   duration |-> duration, segments |-> segments,
   averageBpm |-> IF segments = << >> THEN 0 ELSE averageBpm(segments),
   time |-> undefined, bpmAt |-> 0]

\* the peaks that detectPeaks can return for a signal of the duration: at
\* least 0.2 s apart and at least 0.2 s from both ends
PeakSets(duration) ==
  { P \in SUBSET { p \in PeakCandidates : p < duration - 4 } :
      \A p, q \in P : p < q => q - p >= 4 }

InitAnalyzer ==
  /\ customAudio = 0 /\ currentBpmAnalysis = 0
  /\ currentBpm = DEFAULT_BPM /\ currentBaseBpm = DEFAULT_BPM
  /\ currentAudioStartTime = 0 /\ currentRounds = 1
  /\ currentIncreaseSpeed = FALSE /\ currentSpeedIncreasePercent = 5
  /\ currentCountdownDuration = 2000
  /\ isPlaying = FALSE /\ activeIndex = null /\ revealedIndices = {}
  /\ currentRound = 0 /\ isFullscreen = FALSE /\ countdown = null
  /\ isFinished = FALSE /\ toast = "none"
  /\ intervalRef = null /\ bpmCheckIntervalRef = null
  /\ mainTimers = {} /\ pollTimers = {}
  /\ countdownIntervals = {} /\ countdownTimeouts = {}
  /\ sessions = << >> /\ starts = 0
  /\ customEl = FreshElement /\ defaultEl = FreshElement
  /\ \E duration \in DurationChoices : \E P \in PeakSets(duration) :
       event = AnalyzerEv(SortedSeq(P), duration, << >>)

\* analyzeBpm from the detected peaks on
analyzeBpm ==
  /\ event.segments = << >>
  /\ Becomes([Cur EXCEPT !.event =
        AnalyzerEv(event.peaks, event.duration,
                   analyzeBpmSegments(event.peaks, event.duration))])

\* the times, in ticks, at which the scheduler asks for the BPM
LookupTimes == {Rat(0, 1), Rat(159, 1), Rat(160, 1), Rat(331, 2), Rat(480, 1), Rat(700, 1)}

\* getBpmAtTime(segments, time) on the segments of a returned analysis
GetBpmAt(time) ==
  /\ event.segments # << >>
  /\ event.type = "analysis"
  /\ Becomes([Cur EXCEPT !.event = [event EXCEPT !.type = "lookup", !.time = time,
                                                 !.bpmAt = getBpmAtTime(event.segments, time)]])

NextAnalyzer ==
  \/ analyzeBpm
  \/ \E time \in LookupTimes : GetBpmAt(time)

SpecAnalyzer == InitAnalyzer /\ [][NextAnalyzer]_vars

\* the peaks that fall into segment i of the analysis of the event
PeaksIn(i) ==
  segmentPeaks(event.peaks, event.segments[i].startTime, event.segments[i].endTime)

\* C18: the segments of an analysed signal of duration d are ordered,
\* contiguous and non-overlapping, the first starts at 0, the last ends at d,
\* each has endTime > startTime, and segment i spans [8i, min(8(i+1), d));
\* a signal shorter than 8 s has the one segment [0, d).
C18_SegmentsCoverSignal ==
  event.segments # << >> =>
    LET segs == event.segments
        d == event.duration
    IN  /\ segs[1].startTime = 0
        /\ segs[Len(segs)].endTime = d
        /\ \A i \in 1 .. Len(segs) :
             /\ segs[i].endTime > segs[i].startTime
             /\ segs[i].startTime = segmentDuration * (i - 1)
             /\ segs[i].endTime = IF segmentDuration * i < d THEN segmentDuration * i ELSE d
        /\ \A i \in 1 .. Len(segs) - 1 : segs[i].endTime = segs[i + 1].startTime
        /\ d < segmentDuration => Len(segs) = 1

C18_Witness ==
  /\ event.type = "analysis" /\ event.duration = 170
  /\ Len(event.segments) = 2
  /\ event.segments[2].startTime = 160 /\ event.segments[2].endTime = 170

\* C19: every segment BPM of a returned analysis is in [80, 180], whether it
\* comes from the fallback for fewer than 2 peaks, from folding and rounding,
\* or from smoothing.
C19_SegmentBpmInRange ==
  \A i \in 1 .. Len(event.segments) :
    event.segments[i].bpm >= 80 /\ event.segments[i].bpm <= 180

C19_Witness ==
  /\ event.type = "analysis" /\ Len(event.segments) = 3
  /\ Len(PeaksIn(1)) < 2
  /\ Len(PeaksIn(2)) >= 2
  /\ event.segments[2].bpm # MathRound(Fold(RawBpm(PeaksIn(2))))
  /\ Len(PeaksIn(3)) >= 2 /\ RawBpm(PeaksIn(3)) = Rat(15, 1)

\* the number of doublings and of halvings that folding takes
RECURSIVE Doublings(_)
Doublings(bpm) ==
  IF RatLess(bpm, Rat(80, 1)) THEN 1 + Doublings(RatMul(bpm, Rat(2, 1))) ELSE 0

RECURSIVE Halvings(_)
Halvings(bpm) ==
  IF RatLess(Rat(180, 1), bpm) THEN 1 + Halvings(RatDiv(bpm, Rat(2, 1))) ELSE 0

FoldsWell(raw) ==
  /\ ~RatLess(Fold(raw), Rat(80, 1)) /\ ~RatLess(Rat(180, 1), Fold(raw))
  /\ Doublings(raw) <= 4 /\ Halvings(DoubleWhileLow(raw)) <= 1
  /\ Fold(Fold(raw)) = Fold(raw)

\* C20: folding the raw BPM estimate of a median inter-peak interval (at
\* least 0.2 s and shorter than a segment) ends after at most 4 doublings and
\* 1 halving with a value in [80, 180], and folding a value in [80, 180]
\* leaves it unchanged.  (The last two conjuncts range over every interval
\* and every value, whatever the signal: they are evaluated for the signals
\* without peaks.)
C20_FoldConverges ==
  /\ \A i \in 1 .. Len(event.segments) :
       Len(PeaksIn(i)) >= 2 => FoldsWell(RawBpm(PeaksIn(i)))
  /\ event.peaks = << >> =>
       /\ \A m \in 4 .. segmentDuration - 1 : FoldsWell(Rat(1200, m))
       /\ \A v \in 80 .. 180 : Fold(Rat(v, 1)) = Rat(v, 1)

C20_Witness ==
  /\ event.type = "analysis" /\ Len(event.segments) = 3
  /\ Len(PeaksIn(1)) >= 2 /\ RawBpm(PeaksIn(1)) = Rat(300, 1)
  /\ Len(PeaksIn(3)) >= 2 /\ RawBpm(PeaksIn(3)) = Rat(15, 1)
  /\ event.segments[3].bpm = 120

\* the segments of the event's analysis that contain the time of the lookup
Matching ==
  { i \in 1 .. Len(event.segments) :
      /\ event.segments[i].startTime * event.time[2] <= event.time[1]
      /\ event.time[1] < event.segments[i].endTime * event.time[2] }

\* C21: for the segments of a returned analysis and any time t >= 0,
\* getBpmAtTime returns a defined BPM: that of the first segment with
\* startTime <= t < endTime, or that of the last segment if there is none.
C21_GetBpmAtTimeTotal ==
  event.type = "lookup" =>
    /\ event.bpmAt \in 80 .. 180
    /\ event.bpmAt =
         IF Matching = {} THEN event.segments[Len(event.segments)].bpm
         ELSE event.segments[CHOOSE i \in Matching : \A j \in Matching : i <= j].bpm

C21_Witness ==
  /\ event.type = "lookup" /\ Len(event.segments) = 3
  /\ event.time = Rat(480, 1) /\ Matching = {}
  /\ event.bpmAt = event.segments[3].bpm /\ event.bpmAt \notin {120, event.segments[1].bpm}

\* the segments of the event's signal as the loop of analyzeBpmSegments leaves
\* them, before smoothing
Detected == RawSegments(event.peaks, event.duration, 0, << >>)

\* |current - (prev + next) / 2| > 10
Deviates(prev, current, next) ==
  2 * current - (prev + next) > 20 \/ (prev + next) - 2 * current > 20

C23_AverageIsRoundedMean ==
  event.segments # << >> =>
    LET n == Len(event.segments)
        sum == SumBpm(event.segments, 1)
    IN  /\ 2 * (event.averageBpm * n - sum) <= n
        /\ 2 * (event.averageBpm * n - sum) > -n

C23_Witness ==
  /\ event.type = "analysis" /\ event.duration = 330
  /\ Len(event.segments) = 3
  /\ event.segments[1].bpm # event.segments[3].bpm
  /\ 3 * event.averageBpm = SumBpm(event.segments, 1) + 1
  /\ event.averageBpm * 330 # 160 * (event.segments[1].bpm + event.segments[2].bpm)
                                + 10 * event.segments[3].bpm

\* C24: when the analysis of an uploaded file fails, the upload still takes
\* effect: the file becomes the custom audio, the stored analysis is null, the
\* warning "Audio uploaded, but BPM analysis failed. Using manual BPM." is
\* shown and the manual BPM is kept; and while a custom audio without
\* analysis is configured, playback is timed by the manual BPM only: every
\* main timer is armed with 60000 / userBpm ms, userBpm as the start of its
\* session saw it, and no poll timer is armed.
C24_FailedAnalysisKeepsUpload ==
  [][ /\ event'.type = "uploadUnanalysed" =>
           /\ customAudio' # 0 /\ currentBpmAnalysis' = 0
           /\ toast' = "Audio uploaded, but BPM analysis failed. Using manual BPM."
           /\ currentBpm' = currentBpm
      /\ (customAudio # 0 /\ currentBpmAnalysis = 0 /\ UNCHANGED settingsVars) =>
           /\ \A t \in mainTimers' \ mainTimers :
                t.interval = Rat(60000, sessions'[t.sess].bpm)
           /\ pollTimers' \subseteq pollTimers ]_vars

----------------------------------------------------------------------------
\* The audio settings under upload, removal and the loading of shared
\* configurations (useShareConfig), with nothing playing

ConfigAudioIds == {1, 2}

\* the configurations that generateShareLink stores: the settings of a sharer
\* whose analysis, if any, is that of the shared audio
ShareConfigs ==
  { [bpm |-> b, baseBpm |-> IF an[2] # 0 THEN AnalysisOf(an[2]).averageBpm ELSE DEFAULT_BPM,
     audio |-> an[1], bpmAnalysis |-> an[2], rounds |-> r, increaseSpeed |-> i,
     speedIncreasePercent |-> 10] :
      b \in BpmChoices,
      an \in { x \in ({0} \cup ConfigAudioIds) \X ({0} \cup ConfigAudioIds) : x[2] \in {0, x[1]} },
      r \in RoundChoices, i \in BOOLEAN }

\* applyConfig: a setter is called only for a field that the configuration holds
applyConfig(S, config) ==
  LET S1 == [S EXCEPT !.currentBpm = config.bpm, !.currentBaseBpm = config.baseBpm]
      S2 == IF config.audio # 0 THEN MountCustom(S1, config.audio) ELSE S1
      S3 == IF config.bpmAnalysis # 0
            THEN [S2 EXCEPT !.currentBpmAnalysis = config.bpmAnalysis] ELSE S2
  IN  [S3 EXCEPT !.currentRounds = config.rounds,
                 !.currentIncreaseSpeed = config.increaseSpeed,
                 !.currentSpeedIncreasePercent = config.speedIncreasePercent]

loadFromUrl(S, config) ==
  [applyConfig(S, config) EXCEPT !.toast = "Loaded shared game configuration!",
                                 !.event = Ev("loadFromUrl", 0, null)]

loadPublicGame(S, config) ==
  LET S1 == applyConfig(S, config)
  IN  [(IF config.audio = 0 THEN MountCustom(S1, 0) ELSE S1) EXCEPT
         !.event = Ev("loadPublicGame", 0, null)]

\* the mount effect: loadFromUrl runs once (hasLoadedFromUrl), after mounting
LoadFromUrl(config) ==
  /\ event.type = "init"
  /\ \E playOk \in BOOLEAN :
       Becomes(BpmEffect(loadFromUrl(Cur, config), currentBpm, playOk))

\* a game chosen in the PublicGamesPanel
LoadPublicGame(config) ==
  /\ ~isFullscreen
  /\ \E playOk \in BOOLEAN :
       Becomes(BpmEffect(loadPublicGame(Cur, config), currentBpm, playOk))

NextConfig ==
  \/ \E config \in ShareConfigs : LoadFromUrl(config)
  \/ \E config \in ShareConfigs : LoadPublicGame(config)
  \/ \E a \in ConfigAudioIds, analysed \in BOOLEAN : AudioUpload(a, analysed)
  \/ AudioRemove

SpecConfig == InitSettings /\ [][NextConfig]_vars

\* C25: across upload, replacement, removal and the loading of shared
\* configurations a stored analysis is that of the configured custom audio:
\* no analysis is stored without an audio or with another audio.
C25_AnalysisBelongsToAudio ==
  currentBpmAnalysis # 0 => currentBpmAnalysis = customAudio

----------------------------------------------------------------------------
\* The effective BPM of closure c for a round and an audio position
\* (undefined: no position): userBpm, or with custom audio, an analysis and a
\* position the BPM of the segment at the position (of the last segment
\* beyond the end) * userBpm / baseBpm; times the round speed multiplier
EffectiveBpm(c, round, position) ==
  LET segs == AnalysisOf(c.analysis).segments
      inside == { i \in 1 .. Len(segs) :
                    /\ segs[i].startTime * position[2] <= position[1]
                    /\ position[1] < segs[i].endTime * position[2] }
      detected == IF inside = {} THEN segs[Len(segs)].bpm
                  ELSE segs[CHOOSE i \in inside : \A j \in inside : i <= j].bpm
      multiplier == IF currentIncreaseSpeed
                    THEN 100 + currentSpeedIncreasePercent * (round - 1) ELSE 100
  IN  IF c.customAudio # 0 /\ c.analysis # 0 /\ position # undefined
      THEN Rat(detected * c.bpm * multiplier, c.baseBpm * 100)
      ELSE Rat(c.bpm * multiplier, 100)

\* the audio time that the poll computes for the element that closure c
\* drives: currentTime / playbackRate
PositionOf(c) ==
  LET el == IF c.customAudio # 0 THEN customEl ELSE defaultEl
  IN  <<el.currentTime * el.playbackRate[2], el.playbackRate[1]>>

\* the main timer that intervalRef refers to
CurrentTimer == { t \in mainTimers : t.id = intervalRef }

\* session s is at a beat tick of its main timer (not at the first card,
\* which beginPlayback shows)
BeatTickOf(s) == event'.type = "advance" /\ event'.sess = s /\ s \notin countdownTimeouts

\* C26: every beat tick recomputes the effective BPM that drives the main
\* timer, from the round number and, with an analysis, from the audio
\* position: after the tick the timer runs at 60000 / that BPM.
C26_RecomputedEveryTick ==
  [][ \A s \in DOMAIN sessions :
        BeatTickOf(s) =>
          \E t \in CurrentTimer' :
            /\ t.sess = s
            /\ LET bpm == EffectiveBpm(sessions[s], sessions[s].roundCount,
                                       IF HasAnalysis(sessions[s])
                                       THEN PositionOf(sessions[s]) ELSE undefined)
               IN  t.interval = Rat(60000 * bpm[2], bpm[1]) ]_vars

\* C26 (amended): the effective BPM that drives the main timer is computed
\* when playback begins, for round 1 and position 0.  A beat tick recomputes
\* it only when it starts a new round and no analysis drives the timer: it
\* then rearms the main timer at 60000 / (userBpm * multiplier(round)).  Any
\* other beat tick, and every beat tick with an analysis, leaves the timers
\* and the BPM they were armed with untouched.
C26_RecomputedAtRoundTransition ==
  [][ \A s \in DOMAIN sessions :
        /\ (event'.type = "advance" /\ event'.sess = s /\ s \in countdownTimeouts) =>
             \E t \in CurrentTimer' :
               /\ t.sess = s
               /\ LET bpm == EffectiveBpm(sessions[s], 1, Rat(0, 1))
                  IN  t.interval = Rat(60000 * bpm[2], bpm[1])
        /\ BeatTickOf(s) =>
             IF event'.index = 0 /\ ~HasAnalysis(sessions[s])
             THEN \E t \in CurrentTimer' :
                    /\ t.sess = s
                    /\ LET bpm == EffectiveBpm(sessions[s], sessions[s].roundCount, undefined)
                       IN  t.interval = Rat(60000 * bpm[2], bpm[1])
             ELSE /\ mainTimers' = mainTimers /\ intervalRef' = intervalRef
                  /\ sessions'[s].currentIntervalBpm = sessions[s].currentIntervalBpm ]_vars

C26_Witness ==
  /\ event.type = "advance" /\ event.index = 0
  /\ event.sess \in DOMAIN sessions
  /\ sessions[event.sess].advances = GridSize + 1
  /\ ~HasAnalysis(sessions[event.sess])
  /\ currentIncreaseSpeed /\ currentBpm = 120
  /\ \E t \in CurrentTimer : t.sess = event.sess /\ t.interval = Rat(60000 * 100, 120 * 110)

\* the BPM that a timer of the interval was armed with
BpmOfInterval(interval) == Rat(60000 * interval[2], interval[1])

\* |x - y| > BPM_CHANGE_THRESHOLD
Drifted(x, y) == RatLess(Rat(BPM_CHANGE_THRESHOLD, 1), RatAbsDiff(x, y))

\* session s is at a tick of its poll timer with an analysis present
PollTickOf(s) == event'.type = "poll" /\ event'.sess = s /\ HasAnalysis(sessions[s])

\* the effective BPM that the poll of session s recomputes
PolledBpm(s) == EffectiveBpm(sessions[s], sessions[s].roundCount, PositionOf(sessions[s]))

\* C27: a poll tick with an analysis tears the main timer down and rearms it
\* at 60000 / the recomputed effective BPM if and only if that BPM differs by
\* more than 1 from the BPM the current main timer was armed with; otherwise
\* the main timer and its armed value are left untouched.
C27_RearmIffDrifted ==
  [][ \A s \in DOMAIN sessions : \A t \in CurrentTimer :
        PollTickOf(s) =>
          IF Drifted(PolledBpm(s), BpmOfInterval(t.interval))
          THEN \E n \in CurrentTimer' :
                 /\ n.sess = s
                 /\ n.interval = Rat(60000 * PolledBpm(s)[2], PolledBpm(s)[1])
                 /\ mainTimers' = (mainTimers \ {t}) \cup {n}
          ELSE mainTimers' = mainTimers /\ intervalRef' = intervalRef ]_vars

\* C28: with an analysis, right after every poll tick the BPM that the main
\* timer is armed with is within 1 BPM of the effective BPM for the current
\* round (the round on display) and the current audio position.
C28_TimerWithinOneBpmAfterPoll ==
  [][ \A s \in DOMAIN sessions :
        PollTickOf(s) =>
          \E t \in CurrentTimer' :
            ~Drifted(BpmOfInterval(t.interval),
                     EffectiveBpm(sessions[s], currentRound', PositionOf(sessions[s]))) ]_vars

\* the round that session s has entered with its last beat tick, counted from
\* its advance events
RoundEntered(s) == (sessions[s].advances - 1) \div GridSize + 1

\* C29: with an analysis, a poll tick that fires after the round transition
\* of its session into round k, before the next beat, computes the effective
\* BPM with round number k: afterwards the BPM that the session holds for its
\* main timer is within 1 of the effective BPM of round k at the audio
\* position, and if the poll changed it, the main timer was rearmed at
\* 60000 / that effective BPM.
C29_PollUsesNewRound ==
  [][ \A s \in DOMAIN sessions :
        (/\ PollTickOf(s) /\ ~sessions[s].finished
         /\ sessions[s].index = 0 /\ sessions[s].advances > GridSize) =>
          LET bpm == EffectiveBpm(sessions[s], RoundEntered(s), PositionOf(sessions[s]))
          IN  /\ ~Drifted(sessions'[s].currentIntervalBpm, bpm)
              /\ sessions'[s].currentIntervalBpm # sessions[s].currentIntervalBpm =>
                   /\ sessions'[s].currentIntervalBpm = bpm
                   /\ \E t \in CurrentTimer' :
                        t.sess = s /\ t.interval = Rat(60000 * bpm[2], bpm[1]) ]_vars

C29_Witness ==
  /\ event.type = "poll" /\ event.sess \in DOMAIN sessions
  /\ HasAnalysis(sessions[event.sess]) /\ currentIncreaseSpeed
  /\ sessions[event.sess].index = 0 /\ sessions[event.sess].advances = GridSize + 1
  /\ ~sessions[event.sess].finished
  /\ currentRound = 2 /\ RoundEntered(event.sess) = 2
  /\ LET bpm == EffectiveBpm(sessions[event.sess], 2, PositionOf(sessions[event.sess]))
     IN  /\ sessions[event.sess].currentIntervalBpm = bpm
         /\ \E t \in CurrentTimer :
              t.sess = event.sess /\ t.interval = Rat(60000 * bpm[2], bpm[1])

\* C30: whenever the effective BPM of the main timer is computed while
\* Active, by a poll tick or at the rearm of a round transition, the round
\* number used is the round on display, and the playback rate of the audio
\* is that of the same round.
C30_OneRoundEverywhere ==
  [][ \A s \in DOMAIN sessions :
        (isPlaying /\ (PollTickOf(s) \/ (BeatTickOf(s) /\ event'.index = 0))) =>
          /\ sessions[s].roundCount = currentRound'
          /\ ActiveElement'.playbackRate = RateOfRound(sessions[s].roundCount) ]_vars

----------------------------------------------------------------------------
\* C31: a round transition into round k rearms the main timer at the
\* effective BPM of round k when no analysis drives the timer of the session
\* (the timer that intervalRef held is replaced by one of the session with
\* the period 60000 / (userBpm * multiplier(k))), and leaves the main timers
\* and intervalRef untouched when an analysis does.
C31_RearmAtTransitionWithoutAnalysis ==
  [][ \A s \in DOMAIN sessions :
        (BeatTickOf(s) /\ event'.index = 0) =>
          IF HasAnalysis(sessions[s])
          THEN mainTimers' = mainTimers /\ intervalRef' = intervalRef
          ELSE LET bpm == EffectiveBpm(sessions[s], RoundEntered(s)', undefined)
               IN  \E n \in CurrentTimer' :
                     /\ n.sess = s /\ n.interval = Rat(60000 * bpm[2], bpm[1])
                     /\ mainTimers' = (mainTimers \ CurrentTimer) \cup {n} ]_vars

C31_Witness ==
  /\ event.type = "advance" /\ event.index = 0
  /\ event.sess \in DOMAIN sessions
  /\ sessions[event.sess].advances = GridSize + 1
  /\ HasAnalysis(sessions[event.sess]) /\ currentIncreaseSpeed /\ currentRound = 2
  /\ \E t \in CurrentTimer :
       /\ t.sess = event.sess
       /\ t.interval = LET bpm == EffectiveBpm(sessions[event.sess], 1, Rat(0, 1))
                       IN  Rat(60000 * bpm[2], bpm[1])

----------------------------------------------------------------------------
\* C32: throughout Active the revealed set is exactly the set of the indices
\* activated so far in the current round, 0 .. cursor, for the cursor of every
\* session in its playback (begun by beginPlayback, not yet finished, a main
\* timer still armed), and the active card is the card at the cursor.
C32_RevealedUpToCursor ==
  isPlaying =>
    \A s \in DOMAIN sessions :
      (/\ sessions[s].advances >= 1 /\ ~sessions[s].finished
       /\ \E t \in mainTimers : t.sess = s) =>
        revealedIndices = 0 .. sessions[s].index /\ activeIndex = sessions[s].index

----------------------------------------------------------------------------
\* C33: after any sequence of start, stop, BPM-change and timer events at
\* most one main timer, one poll timer and one countdown timer are live, and
\* every live timer is one that Stop or Finished can cancel: a main timer is
\* the one intervalRef holds, a poll timer the one bpmCheckIntervalRef holds,
\* and a countdown timer belongs to the session on screen.
C33_EveryTimerHasAHandle ==
  /\ Cardinality(mainTimers) <= 1
  /\ \A t \in mainTimers : t.id = intervalRef
  /\ Cardinality(pollTimers) <= 1
  /\ \A t \in pollTimers : t.id = bpmCheckIntervalRef
  /\ Cardinality(countdownIntervals \cup countdownTimeouts) <= 1
  /\ \A s \in countdownIntervals \cup countdownTimeouts : isFullscreen /\ s = starts

----------------------------------------------------------------------------
\* The scheduler without a Stop request, its timers firing fairly

CountdownTicks == \E s \in countdownIntervals : CountdownTick(s)

CountdownTimeouts == \E s \in countdownTimeouts : CountdownTimeout(s)

BeatTicks == \E t \in mainTimers : BeatTick(t)

PollTicks == \E p \in pollTimers : PollTick(p)

\* the play/pause button stops only a session that plays: here it starts one
NextFair ==
  \/ ~isPlaying /\ HandlePlayPause
  \/ CountdownTicks
  \/ CountdownTimeouts
  \/ BeatTicks
  \/ PollTicks
  \/ AudioProgress

\* one of the armed timers fires: a step of CountdownTicks, CountdownTimeouts
\* or BeatTicks
\* (each of them changes the countdown or reports a new event): some
\* countdown interval, countdown timeout or main timer is armed, and the step
\* reports a countdown tick, the end of the countdown, an activated card or
\* the end of the game
TimerFires ==
  /\ \/ countdownIntervals \cup countdownTimeouts # {}
     \/ \E t \in mainTimers : sessions[t.sess].roundCount <= MaxRoundCount
  /\ event' \in { Ev(type, s, i) :
                    type \in {"countdownTick", "countdownEnd", "advance", "finished"},
                    s \in 1 .. MaxStarts, i \in {null} \cup (0 .. GridSize - 1) }
  /\ countdown' \in {null} \cup (1 .. 3)

\* an armed browser timer fires after its delay; a rearm of the main timer
\* arms a new one at once, and the beat period (at most 1 s) is shorter than
\* the distance of two BPM changes of the track (a segment of 8 s). The poll
\* and the progress of the audio need no fairness.
SpecFair == Init /\ [][NextFair]_vars /\ WF_<<event, countdown>>(TimerFires)

\* C34: with timers that fire fairly and no Stop request, every session that
\* was started with a valid configuration eventually reaches Finished, also
\* when the poll tears the main timer down and rearms it again and again.
C34_StartedSessionFinishes == (event.type = "start") ~> isFinished

C34_Witness ==
  /\ event.type = "finished" /\ isFinished /\ mainTimers = {} /\ pollTimers = {}
  /\ customAudio # 0 /\ currentBpmAnalysis = customAudio
  /\ currentRounds = 2 /\ currentIncreaseSpeed
  /\ customEl.playing /\ customEl.currentTime = 8

----------------------------------------------------------------------------
\* C35: the audio position that the poll passes to the calculation of the
\* effective BPM is the position of the element within the track, at every
\* playback rate: after a poll tick the BPM that the session holds for its
\* main timer is within 1 of the effective BPM of its round at the segment
\* that is being heard (the position within the track is the currentTime of
\* the element, in the time base of the analysed signal).
C35_PollLooksUpHeardSegment ==
  [][ \A s \in DOMAIN sessions :
        PollTickOf(s) =>
          LET el == IF sessions[s].customAudio # 0 THEN customEl ELSE defaultEl
          IN  ~Drifted(sessions'[s].currentIntervalBpm,
                       EffectiveBpm(sessions[s], sessions[s].roundCount,
                                    Rat(el.currentTime, 1))) ]_vars

----------------------------------------------------------------------------
\* The signal side of the analyzer: detectPeaks, detectSilenceOffset and the
\* analyzeBpm that joins them.  A signal is the sequence of its samples, in
\* thousandths of full scale; sample i of the code is data[i + 1].  Times are
\* exact fractions of a second.

Abs(x) == IF x < 0 THEN -x ELSE x

\* Math.abs(data[i])
At(data, i) == Abs(data[i + 1])

\* const threshold = 0.3
threshold == <<3, 10>>

\* Math.floor(sampleRate * 0.2)
minTimeBetweenPeaks(sampleRate) == (sampleRate * 2) \div 10

\* the loop that finds the largest absolute sample
maxAmplitude(data) ==
  LET A == { At(data, i) : i \in 0 .. Len(data) - 1 } \cup {0}
  IN  CHOOSE m \in A : \A a \in A : a <= m

\* a peak test that looks at the samples before i only
isPeak_LeftOnly(data, i, m) ==
  \A j \in 1 .. m : ~(At(data, i - j) > At(data, i))

\* the inner loop of detectPeaks: no sample within minTimeBetweenPeaks
\* samples on either side is larger
isPeak(data, i, m) ==
  \A j \in 1 .. m : ~(At(data, i - j) > At(data, i) \/ At(data, i + j) > At(data, i))

\* the samples that pass the threshold and the peak test, in loop order
PeakSamples(data, sampleRate) ==
  LET m == minTimeBetweenPeaks(sampleRate)
      top == maxAmplitude(data)
  IN  SortedSeq({ i \in m .. Len(data) - m - 1 :
                    /\ At(data, i) * threshold[2] > top * threshold[1]
                    /\ isPeak(data, i, m) })

\* the pushes of detectPeaks, over the samples that are peaks: a sample is
\* pushed if (timeInSeconds - peaks[peaks.length - 1]) >= 0.2.  Two times that
\* are 0.2 s apart to the sample differ, as doubles, by 0.2 or by a little
\* less: atBoundary is the outcome of the comparison then
RECURSIVE PushPeaks(_, _, _, _, _)
PushPeaks(samples, k, accepted, sampleRate, atBoundary) ==
  IF k > Len(samples) THEN accepted
  ELSE LET gap == 5 * (samples[k] - accepted[Len(accepted)])
       IN  PushPeaks(samples, k + 1,
                     IF accepted = << >>
                        \/ (IF gap = sampleRate THEN atBoundary ELSE gap > sampleRate)
                     THEN Append(accepted, samples[k]) ELSE accepted,
                     sampleRate, atBoundary)

\* detectPeaks: the times i / sampleRate of the accepted samples
detectPeaks(data, sampleRate, atBoundary) ==
  LET accepted == PushPeaks(PeakSamples(data, sampleRate), 1, << >>, sampleRate, atBoundary)
  IN  [k \in 1 .. Len(accepted) |-> Rat(accepted[k], sampleRate)]

silenceThreshold == 10

\* Math.floor(sampleRate * 0.01)
windowSize(sampleRate) == sampleRate \div 100

\* the inner loop of detectSilenceOffset over the window that starts at i
WindowMax(channelData, i, w) ==
  LET A == { At(channelData, i + j) : j \in 0 .. w - 1 } \cup {0}
  IN  CHOOSE m \in A : \A a \in A : a <= m

detectSilenceOffset(channelData, sampleRate) ==
  LET w == windowSize(sampleRate)
      loud == { i \in 0 .. Len(channelData) - w - 1 :
                  i % w = 0 /\ WindowMax(channelData, i, w) > silenceThreshold }
  IN  IF loud = {} THEN Rat(0, 1)
      ELSE Rat(CHOOSE i \in loud : \A o \in loud : i <= o, sampleRate)

\* The inputs: every short signal over a few amplitudes for the two
\* detectors, at sample rates that keep Math.floor(sampleRate * 0.2) and
\* Math.floor(sampleRate * 0.01) small, and for analyzeBpm signals of one to
\* three windows that are silent but for a few pulses.

PeakSampleRates == {5, 10}
PeakAmplitudes == {0, 3, -4, 10}
SilenceSampleRates == {200, 300}
SilenceAmplitudes == {0, 10, -11}
SampleCounts == 0 .. 7

AnalysisSampleRate == 100
AnalysisDurations == {170, 330}
PulseTicks == {8, 20, 30, 164, 180, 196, 215, 240}

\* a signal of the duration, in ticks, that is 0 but for pulses at the ticks
\* (a weak one at tick 30)
PulseSignal(duration, ticks) ==
  [i \in 1 .. (duration * AnalysisSampleRate) \div 20 |->
     IF (i - 1) % (AnalysisSampleRate \div 20) = 0
        /\ (i - 1) \div (AnalysisSampleRate \div 20) \in ticks
     THEN IF (i - 1) \div (AnalysisSampleRate \div 20) = 30 THEN 200 ELSE 800
     ELSE 0]

Silent(data) == \A i \in 1 .. Len(data) : data[i] = 0

\* the pulses of the decoded signals that analyzeBpm is given
RawPulses == {{}, {0}, {2, 164}}

\* what the lowpass rendering of OfflineAudioContext can make of a signal:
\* a signal of the same length, silent when the input is silent; the pulses
\* that are left in it
RenderedPulses(raw, duration) ==
  IF Silent(raw) THEN {{}}
  ELSE { P \in SUBSET { t \in PulseTicks : t < duration } : Cardinality(P) <= 2 }

InitSignal ==
  /\ customAudio = 0 /\ currentBpmAnalysis = 0
  /\ currentBpm = DEFAULT_BPM /\ currentBaseBpm = DEFAULT_BPM
  /\ currentAudioStartTime = 0 /\ currentRounds = 1
  /\ currentIncreaseSpeed = FALSE /\ currentSpeedIncreasePercent = 5
  /\ currentCountdownDuration = 2000
  /\ isPlaying = FALSE /\ activeIndex = null /\ revealedIndices = {}
  /\ currentRound = 0 /\ isFullscreen = FALSE /\ countdown = null
  /\ isFinished = FALSE /\ toast = "none"
  /\ intervalRef = null /\ bpmCheckIntervalRef = null
  /\ mainTimers = {} /\ pollTimers = {}
  /\ countdownIntervals = {} /\ countdownTimeouts = {}
  /\ sessions = << >> /\ starts = 0
  /\ customEl = FreshElement /\ defaultEl = FreshElement
  /\ event = [type |-> "init"]

\* detectPeaks(data, sampleRate)
DetectPeaks ==
  /\ event.type = "init"
  /\ \E sampleRate \in PeakSampleRates, n \in SampleCounts, atBoundary \in BOOLEAN :
       \E data \in [1 .. n -> PeakAmplitudes] :
         Becomes([Cur EXCEPT !.event =
           [type |-> "peaks", sampleRate |-> sampleRate, data |-> data,
            peaks |-> detectPeaks(data, sampleRate, atBoundary)]])

\* detectSilenceOffset(audioBuffer)
DetectSilence ==
  /\ event.type = "init"
  /\ \E sampleRate \in SilenceSampleRates, n \in SampleCounts :
       \E data \in [1 .. n -> SilenceAmplitudes] :
         Becomes([Cur EXCEPT !.event =
           [type |-> "silence", sampleRate |-> sampleRate, data |-> data,
            silenceOffset |-> detectSilenceOffset(data, sampleRate)]])

\* analyzeBpm(audioUrl), from the decoded signal on
AnalyzeSignal ==
  /\ event.type = "init"
  /\ \E duration \in AnalysisDurations, atBoundary \in BOOLEAN :
       \E R \in RawPulses : \E P \in RenderedPulses(PulseSignal(duration, R), duration) :
         LET raw == PulseSignal(duration, R)
             rendered == PulseSignal(duration, P)
             peaks == detectPeaks(rendered, AnalysisSampleRate, atBoundary)
             ticks == [k \in 1 .. Len(peaks) |-> (peaks[k][1] * 20) \div peaks[k][2]]
             segments == analyzeBpmSegments(ticks, duration)
         IN  Becomes([Cur EXCEPT !.event =
               [type |-> "signal", duration |-> duration,
                silent |-> Silent(raw),
                silenceOffset |-> detectSilenceOffset(raw, AnalysisSampleRate),
                peaks |-> ticks, segments |-> segments,
                averageBpm |-> averageBpm(segments)]])

NextSignal == AnalyzeSignal \/ DetectPeaks \/ DetectSilence

SpecSignal == InitSignal /\ [][NextSignal]_vars

----------------------------------------------------------------------------
\* C36: a window with fewer than 2 peaks takes the BPM that the previous
\* window was given, or 120 if it is the first window; and a completely
\* silent signal yields silenceOffset 0, no peak, and 120 BPM in every
\* segment of the returned analysis.
C36_FallbackAndSilentSignal ==
  event.type = "signal" =>
    LET raw == RawSegments(event.peaks, event.duration, 0, << >>)
    IN  /\ \A i \in 1 .. Len(raw) :
             Len(segmentPeaks(event.peaks, raw[i].startTime, raw[i].endTime)) < 2 =>
               raw[i].bpm = IF i = 1 THEN 120 ELSE raw[i - 1].bpm
        /\ event.silent =>
             /\ event.silenceOffset = Rat(0, 1)
             /\ event.peaks = << >>
             /\ \A i \in 1 .. Len(event.segments) : event.segments[i].bpm = 120
             /\ event.averageBpm = 120

C36_Witness ==
  /\ event.type = "signal" /\ event.silent /\ event.duration = 330
  /\ Len(event.segments) = 3
  /\ \A i \in 1 .. 3 : event.segments[i].bpm = 120
  /\ event.silenceOffset = Rat(0, 1)

\* the sample of the peak at the time
SampleOf(time, sampleRate) == (time[1] * sampleRate) \div time[2]

\* C39: the peaks that detectPeaks returns are strictly increasing in time,
\* two consecutive ones are at least 200 ms apart, and every one of them has
\* an absolute value above 30 % of the largest absolute value of the signal
\* and is not exceeded by any sample within 200 ms on either side.
C39_PeaksSpacedAndLocalMaxima ==
  event.type = "peaks" =>
    LET P == event.peaks
        data == event.data
        top == maxAmplitude(data)
    IN  /\ \A k \in 1 .. Len(P) - 1 :
             /\ RatLess(P[k], P[k + 1])
             /\ 5 * (P[k + 1][1] * P[k][2] - P[k][1] * P[k + 1][2]) >= P[k][2] * P[k + 1][2]
        /\ \A k \in 1 .. Len(P) :
             LET i == SampleOf(P[k], event.sampleRate)
             IN  /\ Rat(i, event.sampleRate) = P[k]
                 /\ i \in 0 .. Len(data) - 1
                 /\ 10 * At(data, i) > 3 * top
                 /\ \A j \in 0 .. Len(data) - 1 :
                      5 * Abs(j - i) <= event.sampleRate => At(data, j) <= At(data, i)

C39_Witness ==
  /\ event.type = "peaks" /\ Len(event.peaks) = 2
  /\ \E j \in 0 .. Len(event.data) - 1 :
       /\ 10 * At(event.data, j) > 3 * maxAmplitude(event.data)
       /\ \A k \in 1 .. 2 : event.peaks[k] # Rat(j, event.sampleRate)
       /\ \E k \in 1 .. 2 :
            5 * Abs(j - SampleOf(event.peaks[k], event.sampleRate)) <= event.sampleRate

\* C40: silenceOffset is the start time of the first of the fixed 10 ms
\* windows of the raw signal whose largest absolute amplitude exceeds 0.01 of
\* full scale, and 0 if no window of the signal exceeds it.
C40_FirstLoudWindow ==
  event.type = "silence" =>
    LET w == windowSize(event.sampleRate)
        data == event.data
        loud == { i \in 0 .. Len(data) - 1 :
                    /\ i % w = 0
                    /\ \E j \in i .. i + w - 1 :
                         j <= Len(data) - 1 /\ At(data, j) > silenceThreshold }
    IN  event.silenceOffset =
          IF loud = {} THEN Rat(0, 1)
          ELSE Rat(CHOOSE i \in loud : \A o \in loud : i <= o, event.sampleRate)

----------------------------------------------------------------------------
\* the inter-peak intervals of the peaks sp of a window
IntervalsOf(sp) == [j \in 1 .. Len(sp) - 1 |-> sp[j + 1] - sp[j]]

\* the peaks that fall into the window of segment i before smoothing; the
\* analysis keeps the windows when it smooths
WindowPeaks(raw, i) == segmentPeaks(event.peaks, raw[i].startTime, raw[i].endTime)

\* C37: for a window with at least 2 peaks the segment BPM before smoothing
\* is round(fold(60 / m)), m the median of the inter-peak intervals of the
\* peaks in the window, which is the mean of the two middle intervals when
\* their number is even.
C37_MedianOfIntervals ==
  (event.type = "analysis" /\ event.segments # << >>) =>
    LET raw == Detected
    IN  \A i \in 1 .. Len(raw) :
          Len(WindowPeaks(raw, i)) >= 2 =>
            LET sorted == sort(IntervalsOf(WindowPeaks(raw, i)))
                n == Len(sorted)
                median == IF n % 2 = 1 THEN Rat(sorted[(n + 1) \div 2], 1)
                          ELSE Rat(sorted[n \div 2] + sorted[n \div 2 + 1], 2)
            IN  raw[i].bpm = MathRound(Fold(RatDiv(Rat(1200, 1), median)))

\* C37, amended: for a window with at least 2 peaks the segment BPM before
\* smoothing is round(fold(60 / m)), m the interval number floor(n / 2) + 1
\* of the n inter-peak intervals in ascending order: the upper of the two
\* middle intervals when n is even.
C37_UpperMedianOfIntervals ==
  (event.type = "analysis" /\ event.segments # << >>) =>
    LET raw == Detected
    IN  \A i \in 1 .. Len(raw) :
          Len(WindowPeaks(raw, i)) >= 2 =>
            LET intervals == IntervalsOf(WindowPeaks(raw, i))
                n == Len(intervals)
            IN  \E m \in 1 .. segmentDuration :
                  /\ \E k \in 1 .. n : intervals[k] = m
                  /\ Cardinality({ k \in 1 .. n : intervals[k] < m }) <= n \div 2
                  /\ Cardinality({ k \in 1 .. n : intervals[k] <= m }) >= n \div 2 + 1
                  /\ raw[i].bpm = MathRound(Fold(Rat(1200, m)))

C37_Witness ==
  /\ event.type = "analysis" /\ event.segments # << >>
  /\ IntervalsOf(WindowPeaks(Detected, 1)) = <<4, 12>>
  /\ Detected[1].bpm = 100

----------------------------------------------------------------------------
\* C38: when an interior segment i is smoothed, the average that it is
\* compared against and replaced by is that of the BPMs that segments i - 1
\* and i + 1 had before smoothing, so that the result does not depend on the
\* order in which the segments are visited.
C38_SmoothedAgainstDetectedNeighbours ==
  (event.type = "analysis" /\ event.segments # << >>) =>
    LET out == event.segments
        raw == Detected
    IN  \A i \in 2 .. Len(raw) - 1 :
          out[i].bpm =
            IF Deviates(raw[i - 1].bpm, raw[i].bpm, raw[i + 1].bpm)
            THEN (raw[i - 1].bpm + raw[i + 1].bpm + 1) \div 2
            ELSE raw[i].bpm

====
